---- MODULE Spec2Model ----
(***************************************************************************)
(* Model of script-final-veterinaires.js: a Puppeteer script that walks    *)
(* the paginated search results of six cantons, extracts listings from     *)
(* each page and writes them to one CSV file.                              *)
(*                                                                         *)
(* JavaScript strings are sequences of one-character strings, so that      *)
(* trim, replace and the CSV quoting are computed character by character.  *)
(* A value that may be null (an element that querySelector did not find,   *)
(* an attribute that is not set, a file that does not exist) is a sequence *)
(* of length 0 (null) or 1 (the value).                                    *)
(***************************************************************************)
EXTENDS Integers, Sequences, FiniteSets, TLC

VARIABLES
  pc,              \* position of the control flow of main()
  browser,         \* "none" | "open" | "closed": the session of puppeteer.launch
  closeCalls,      \* number of calls of browser.close()
  cookieLogged,    \* acceptCookies printed its "no banner" line
  cantonIdx,       \* index in CANTONS_SUISSE_ROMANDE of the for-loop of main()
  allVeterinaires, \* the module-level collection
  veterinaires,    \* local of collectDataForCanton
  hasNextPage,     \* local of collectDataForCanton
  pageNum,         \* local of collectDataForCanton
  dom,             \* the page the browser currently shows (<<>> before any result page)
  requests,        \* history: the result pages requested by the current collectDataForCanton call
  served,          \* history: the pages served to the current collectDataForCanton call
  returned,        \* history: the cantons for which collectDataForCanton has returned
  entriesServed,   \* number of listing nodes served so far (bounded by MaxEntries)
  nextServed,      \* number of pages served with a next-page control (bounded by MaxNext)
  csvFile,         \* <<>> (no file) or <<content>>
  writeCalls,      \* number of calls of fs.writeFileSync
  error,           \* the steps that threw, in order
  stderr,          \* sequence of handlers that printed the error
  mainPromise,     \* "pending" | "fulfilled" | "rejected": the promise of main()
  topHandler,      \* "waiting" | "ran" | "none": the handler attached by main().catch
  exitCode,        \* <<>> while running, <<status>> once the process has ended
  processExitCode, \* <<>> (never assigned) or <<code>>: process.exitCode
  csvData,         \* input of convertToCSV in the serializer specification
  csvOut,          \* <<>> or <<output of convertToCSV(csvData)>>
  csvChars,        \* number of characters put into csvData (bounded by MaxChars)
  normScheme,      \* "tel" | "mailto": which normalization is exercised
  normIn,          \* a link attribute value
  normOnce,        \* <<>> or <<normIn stripped once>>
  normTwice        \* <<>> or <<normIn stripped twice>>

vars == <<pc, browser, closeCalls, cookieLogged, cantonIdx, allVeterinaires,
          veterinaires, hasNextPage, pageNum, dom, requests, served, returned,
          entriesServed, nextServed, csvFile, writeCalls, error, stderr,
          mainPromise, topHandler, exitCode, processExitCode,
          csvData, csvOut, csvChars, normScheme, normIn, normOnce, normTwice>>

runVars == <<pc, browser, closeCalls, cookieLogged, cantonIdx, allVeterinaires,
             veterinaires, hasNextPage, pageNum, dom, requests, served, returned,
             entriesServed, nextServed, csvFile, writeCalls, error, stderr,
             mainPromise, topHandler, exitCode, processExitCode>>

csvVars == <<csvData, csvOut, csvChars>>

normVars == <<normScheme, normIn, normOnce, normTwice>>

(***************************************************************************)
(* Bounds                                                                  *)
(***************************************************************************)
\* listing nodes the site serves during one run
MaxEntries == 2
\* pages with a next-page control the site serves during one run
MaxNext == 2
\* listing nodes on one page
MaxPageEntries == 2
\* listings given to convertToCSV in the serializer specification
MaxRows == 2
\* characters in the fields of those listings, all together
MaxChars == 2
\* tokens a link attribute value is assembled from
MaxTokens == 3

(***************************************************************************)
(* Strings                                                                 *)
(***************************************************************************)
Quote == "\""
Comma == ","
Newline == "\n"
Space == " "

isSpace(c) == c \in {" ", "\n", "\t"}

\* String.prototype.trim
RECURSIVE trimStart(_)
trimStart(s) ==
  IF s # <<>> /\ isSpace(Head(s)) THEN trimStart(Tail(s)) ELSE s

RECURSIVE trimEnd(_)
trimEnd(s) ==
  IF s # <<>> /\ isSpace(s[Len(s)]) THEN trimEnd(SubSeq(s, 1, Len(s) - 1)) ELSE s

trim(s) == trimEnd(trimStart(s))

\* String.prototype.replace(pattern, replacement) with a string pattern:
\* only the first occurrence, wherever it is, is replaced
replaceFirst(s, pat, rep) ==
  LET hits == {i \in 1..(Len(s) - Len(pat) + 1) : SubSeq(s, i, i + Len(pat) - 1) = pat}
  IN IF hits = {} THEN s
     ELSE LET i == CHOOSE h \in hits : \A k \in hits : h <= k
          IN SubSeq(s, 1, i - 1) \o rep \o SubSeq(s, i + Len(pat), Len(s))

\* String.prototype.replace(/c/g, replacement): every occurrence of the character
RECURSIVE replaceAll(_, _, _)
replaceAll(s, c, rep) ==
  IF s = <<>> THEN <<>>
  ELSE (IF Head(s) = c THEN rep ELSE <<Head(s)>>) \o replaceAll(Tail(s), c, rep)

\* Array.prototype.join
RECURSIVE join(_, _)
join(parts, sep) ==
  IF parts = <<>> THEN <<>>
  ELSE IF Len(parts) = 1 THEN parts[1]
  ELSE parts[1] \o sep \o join(Tail(parts), sep)

\* concatenation of a sequence of sequences
RECURSIVE flatten(_)
flatten(ss) == IF ss = <<>> THEN <<>> ELSE Head(ss) \o flatten(Tail(ss))

TelScheme == <<"t", "e", "l", ":">>
MailtoScheme == <<"m", "a", "i", "l", "t", "o", ":">>

(***************************************************************************)
(* extractDataFromPage: the field extraction inside page.evaluate          *)
(***************************************************************************)
\* the scheme stripping of the phone link attribute
stripTel(href) == replaceFirst(href, TelScheme, <<>>)

\* the scheme stripping of the mail link attribute
stripMailto(href) == replaceFirst(href, MailtoScheme, <<>>)

\* an attribute counts as set when getAttribute returns a non-empty string
truthy(attr) == attr # <<>> /\ attr[1] # <<>>

nom(result) ==
  IF result.nameElem # <<>> THEN trim(result.nameElem[1]) ELSE <<>>

RECURSIVE adresseLoop(_)
adresseLoop(elems) ==
  IF elems = <<>> THEN <<>>
  ELSE trim(Head(elems)) \o <<Space>> \o adresseLoop(Tail(elems))

adresse(result) ==
  IF Len(result.addressElems) > 0 THEN trim(adresseLoop(result.addressElems)) ELSE <<>>

telephone(result) ==
  IF result.phoneElem # <<>>
  THEN IF truthy(result.phoneElem[1].href)
       THEN stripTel(result.phoneElem[1].href[1])
       ELSE trim(result.phoneElem[1].text)
  ELSE <<>>

email(result) ==
  IF result.emailElem # <<>>
  THEN IF truthy(result.emailElem[1].href)
       THEN stripMailto(result.emailElem[1].href[1])
       ELSE trim(result.emailElem[1].text)
  ELSE <<>>

siteWeb(result) ==
  IF result.webElem # <<>> /\ truthy(result.webElem[1].href)
  THEN result.webElem[1].href[1] ELSE <<>>

specialite(result) ==
  IF result.categoryElem # <<>> THEN trim(result.categoryElem[1]) ELSE <<>>

\* the callback of results.map
mapResult(result, canton) ==
  [nom |-> nom(result), adresse |-> adresse(result), telephone |-> telephone(result),
   email |-> email(result), siteWeb |-> siteWeb(result),
   specialite |-> specialite(result), canton |-> canton]

\* the callback of .filter
keepItem_all(item) == TRUE

keepItem(item) == Len(item.nom) > 0

RECURSIVE mapFilter(_, _)
mapFilter(results, canton) ==
  IF results = <<>> THEN <<>>
  ELSE LET item == mapResult(Head(results), canton)
       IN (IF keepItem(item) THEN <<item>> ELSE <<>>) \o mapFilter(Tail(results), canton)

\* what page.evaluate returns for the page d
extractDataFromPage(d, canton) == mapFilter(d.entries, canton)

\* page.waitForSelector('.entry, .card-info') runs into its timeout
\* when the page has no matching node
selectorTimesOut(d) == d.entries = <<>>

\* hasNextPageAvailable: the next-page control is in the page
hasNextPageAvailable(d) == d.next

(***************************************************************************)
(* convertToCSV                                                            *)
(***************************************************************************)
headers ==
  << <<"N", "o", "m">>,
     <<"A", "d", "r", "e", "s", "s", "e">>,
     <<"T", "é", "l", "é", "p", "h", "o", "n", "e">>,
     <<"E", "m", "a", "i", "l">>,
     <<"S", "i", "t", "e", " ", "W", "e", "b">>,
     <<"S", "p", "é", "c", "i", "a", "l", "i", "t", "é">>,
     <<"C", "a", "n", "t", "o", "n">> >>

escapeQuotes_none(v) == v

\* .replace(/"/g, '""')
escapeQuotes(v) == replaceAll(v, Quote, <<Quote, Quote>>)

\* `"${(v || '').replace(/"/g, '""')}"`
quoted(v) == <<Quote>> \o escapeQuotes(v) \o <<Quote>>

values(item) ==
  <<quoted(item.nom), quoted(item.adresse), quoted(item.telephone), quoted(item.email),
    quoted(item.siteWeb), quoted(item.specialite), quoted(item.canton)>>

csvRows(data) ==
  <<join(headers, <<Comma>>)>> \o [i \in 1..Len(data) |-> join(values(data[i]), <<Comma>>)]

convertToCSV(data) == join(csvRows(data), <<Newline>>)

(***************************************************************************)
(* The state after the module is loaded and before main() is called        *)
(***************************************************************************)
CANTONS_SUISSE_ROMANDE ==
  << <<"V", "a", "u", "d">>,
     <<"G", "e", "n", "è", "v", "e">>,
     <<"N", "e", "u", "c", "h", "â", "t", "e", "l">>,
     <<"J", "u", "r", "a">>,
     <<"F", "r", "i", "b", "o", "u", "r", "g">>,
     <<"V", "a", "l", "a", "i", "s">> >>

RunInit ==
  /\ pc = "launch"
  /\ browser = "none"
  /\ closeCalls = 0
  /\ cookieLogged = FALSE
  /\ cantonIdx = 1
  /\ allVeterinaires = <<>>
  /\ veterinaires = <<>>
  /\ hasNextPage = TRUE
  /\ pageNum = 1
  /\ dom = <<>>
  /\ requests = <<>>
  /\ served = <<>>
  /\ returned = <<>>
  /\ entriesServed = 0
  /\ nextServed = 0
  /\ csvFile = <<>>
  /\ writeCalls = 0
  /\ error = <<>>
  /\ stderr = <<>>
  /\ mainPromise = "pending"
  /\ topHandler = "waiting"
  /\ exitCode = <<>>
  /\ processExitCode = <<>>

CsvIdle ==
  /\ csvData = <<>>
  /\ csvOut = <<>>
  /\ csvChars = 0

NormIdle ==
  /\ normScheme = "tel"
  /\ normIn = <<>>
  /\ normOnce = <<>>
  /\ normTwice = <<>>

(***************************************************************************)
(* The serializer on its own: convertToCSV applied to collections of       *)
(* listings whose fields are arbitrary strings over CsvAlphabet            *)
(***************************************************************************)
Fields == {"nom", "adresse", "telephone", "email", "siteWeb", "specialite", "canton"}

CsvAlphabet == {"a", Quote, Comma, Newline}

EmptyListing ==
  [nom |-> <<>>, adresse |-> <<>>, telephone |-> <<>>, email |-> <<>>,
   siteWeb |-> <<>>, specialite |-> <<>>, canton |-> <<>>]

CsvAddListing ==
  /\ csvOut = <<>>
  /\ Len(csvData) < MaxRows
  /\ csvData' = Append(csvData, EmptyListing)
  /\ UNCHANGED <<csvOut, csvChars>>
  /\ UNCHANGED <<runVars, normVars>>

CsvAppendChar ==
  /\ csvOut = <<>>
  /\ csvData # <<>>
  /\ csvChars < MaxChars
  /\ \E f \in Fields, c \in CsvAlphabet :
       LET n == Len(csvData)
       IN csvData' = [csvData EXCEPT ![n] = [@ EXCEPT ![f] = Append(@, c)]]
  /\ csvChars' = csvChars + 1
  /\ UNCHANGED csvOut
  /\ UNCHANGED <<runVars, normVars>>

CsvConvert ==
  /\ csvOut = <<>>
  /\ csvOut' = <<convertToCSV(csvData)>>
  /\ UNCHANGED <<csvData, csvChars>>
  /\ UNCHANGED <<runVars, normVars>>

InitCSV == RunInit /\ CsvIdle /\ NormIdle

NextCSV == CsvAddListing \/ CsvAppendChar \/ CsvConvert

SpecCSV == InitCSV /\ [][NextCSV]_vars

(***************************************************************************)
(* The scheme stripping on its own: the phone and mail normalization of    *)
(* extractDataFromPage applied to link attribute values, and applied again *)
(* to its own result                                                       *)
(***************************************************************************)
Tokens ==
  { TelScheme, MailtoScheme,
    <<"+", "4", "1", "2", "1", "1", "2", "3", "4", "5", "6", "7">>,
    <<"a", "@", "b", ".", "c", "h">>,
    <<"t", "e">>, <<"l", ":">> }

NormInputs ==
  { flatten(ts) : ts \in UNION { [1..n -> Tokens] : n \in 0..MaxTokens } }

\* the phone or mail field of an entry whose link carries the attribute href
\* and no text
normalize(scheme, href) ==
  LET link == <<[href |-> <<href>>, text |-> <<>>]>>
  IN IF scheme = "tel" THEN telephone([phoneElem |-> link])
     ELSE email([emailElem |-> link])

NormStrip ==
  /\ normOnce = <<>>
  /\ normOnce' = <<normalize(normScheme, normIn)>>
  /\ UNCHANGED <<normScheme, normIn, normTwice>>
  /\ UNCHANGED <<runVars, csvVars>>

NormStripAgain ==
  /\ normOnce # <<>>
  /\ normTwice = <<>>
  /\ normTwice' = <<normalize(normScheme, normOnce[1])>>
  /\ UNCHANGED <<normScheme, normIn, normOnce>>
  /\ UNCHANGED <<runVars, csvVars>>

InitNorm ==
  /\ RunInit
  /\ CsvIdle
  /\ normScheme \in {"tel", "mailto"}
  /\ normIn \in NormInputs
  /\ normOnce = <<>>
  /\ normTwice = <<>>

NextNorm == NormStrip \/ NormStripAgain

SpecNorm == InitNorm /\ [][NextNorm]_vars

CliniqueName ==
  <<"C", "l", "i", "n", "i", "q", "u", "e", " ", Quote, "L", "e", "s", " ",
    "A", "n", "i", "m", "a", "u", "x", Quote>>

TelExample == TelScheme \o <<"+", "4", "1", "2", "1", "1", "2", "3", "4", "5", "6", "7">>

(***************************************************************************)
(* The pages the site serves                                               *)
(***************************************************************************)
NoLink == <<>>

\* an entry without a name element
EntryNoName ==
  [nameElem |-> <<>>, addressElems |-> << <<"R", "u", "e">> >>, phoneElem |-> NoLink,
   emailElem |-> NoLink, webElem |-> NoLink, categoryElem |-> <<>>]

\* an entry whose name element holds only white space
EntryBlankName ==
  [nameElem |-> << <<" ", "\n", " ">> >>, addressElems |-> <<>>, phoneElem |-> NoLink,
   emailElem |-> NoLink, webElem |-> NoLink, categoryElem |-> <<>>]

\* an entry with a double quote in its name, an address in two fragments and
\* a phone link
EntryClinique ==
  [nameElem |-> << <<" ">> \o CliniqueName \o <<"\n">> >>,
   addressElems |-> << <<"R", "u", "e", " ", "E", "x", "a", "m", "p", "l", "e", " ", "1">>,
                       <<" ", "1", "0", "0", "0", " ", "L", "a", "u", "s", "a", "n", "n", "e">> >>,
   phoneElem |-> <<[href |-> <<TelExample>>, text |-> <<"0", "2", "1">>]>>,
   emailElem |-> NoLink,
   webElem |-> NoLink,
   categoryElem |-> <<>>]

\* an entry with a phone element without link attribute, a mail link, a web
\* link and a category
EntryCabinet ==
  [nameElem |-> << <<"C", "a", "b", ",", "B">> >>,
   addressElems |-> <<>>,
   phoneElem |-> <<[href |-> <<>>, text |-> <<" ", "0", "2", "2", " ">>]>>,
   emailElem |-> <<[href |-> <<MailtoScheme \o <<"a", "@", "b", ".", "c", "h">>>>, text |-> <<>>]>>,
   webElem |-> <<[href |-> << <<"h", "t", "t", "p", ":", "/", "/", "b", ".", "c", "h">> >>]>>,
   categoryElem |-> << <<" ", "V", "e", "t", " ">> >>]

EntrySamples == {EntryNoName, EntryBlankName, EntryClinique, EntryCabinet}

\* a result page: its listing nodes and whether it carries the next-page control
PageDOMs ==
  { [entries |-> es, next |-> n] :
      es \in UNION { [1..k -> EntrySamples] : k \in 0..MaxPageEntries }, n \in BOOLEAN }

(***************************************************************************)
(* main() and the functions it awaits                                      *)
(***************************************************************************)
canton == CANTONS_SUISSE_ROMANDE[cantonIdx]

\* an await inside the try block of main() throws
Throw(step) ==
  /\ error' = Append(error, step)
  /\ pc' = "catch"

Launch ==
  /\ pc = "launch"
  /\ \/ /\ browser' = "open"
        /\ pc' = "newPage"
        /\ UNCHANGED <<error, mainPromise>>
     \/ /\ error' = Append(error, "launch")
        /\ mainPromise' = "rejected"
        /\ pc' = "settled"
        /\ UNCHANGED browser
  /\ UNCHANGED <<closeCalls, cookieLogged, cantonIdx, allVeterinaires, veterinaires,
                 hasNextPage, pageNum, dom, requests, served, returned, entriesServed,
                 nextServed, csvFile, writeCalls, stderr, topHandler, exitCode,
                 processExitCode>>
  /\ UNCHANGED <<csvVars, normVars>>

NewPage ==
  /\ pc = "newPage"
  /\ \/ pc' = "gotoLanding" /\ UNCHANGED error
     \/ Throw("newPage")
  /\ UNCHANGED <<browser, closeCalls, cookieLogged, cantonIdx, allVeterinaires,
                 veterinaires, hasNextPage, pageNum, dom, requests, served, returned,
                 entriesServed, nextServed, csvFile, writeCalls, stderr, mainPromise,
                 topHandler, exitCode, processExitCode>>
  /\ UNCHANGED <<csvVars, normVars>>

GotoLanding ==
  /\ pc = "gotoLanding"
  /\ \/ pc' = "acceptCookies" /\ UNCHANGED error
     \/ Throw("gotoLanding")
  /\ UNCHANGED <<browser, closeCalls, cookieLogged, cantonIdx, allVeterinaires,
                 veterinaires, hasNextPage, pageNum, dom, requests, served, returned,
                 entriesServed, nextServed, csvFile, writeCalls, stderr, mainPromise,
                 topHandler, exitCode, processExitCode>>
  /\ UNCHANGED <<csvVars, normVars>>

\* what can happen inside acceptCookies: the button is clicked; buttons exist
\* but none is the accept button; waitForSelector runs into its timeout;
\* page.evaluate throws; page.waitForTimeout throws
CookieOutcomes == {"clicked", "noAcceptButton", "timeout", "evaluateError", "waitError"}

cookieFailure(outcome) == outcome \in {"timeout", "evaluateError", "waitError"}

AcceptCookies_nocatch ==
  /\ pc = "acceptCookies"
  /\ \E outcome \in CookieOutcomes :
       IF cookieFailure(outcome)
       THEN Throw("acceptCookies") /\ UNCHANGED cookieLogged
       ELSE pc' = "forCanton" /\ UNCHANGED <<error, cookieLogged>>
  /\ UNCHANGED <<browser, closeCalls, cantonIdx, allVeterinaires,
                 veterinaires, hasNextPage, pageNum, dom, requests, served, returned,
                 entriesServed, nextServed, csvFile, writeCalls, stderr, mainPromise,
                 topHandler, exitCode, processExitCode>>
  /\ UNCHANGED <<csvVars, normVars>>

AcceptCookies ==
  /\ pc = "acceptCookies"
  /\ \E outcome \in CookieOutcomes :
       cookieLogged' = cookieFailure(outcome)
  /\ pc' = "forCanton"
  /\ UNCHANGED <<browser, closeCalls, cantonIdx, allVeterinaires,
                 veterinaires, hasNextPage, pageNum, dom, requests, served, returned,
                 entriesServed, nextServed, csvFile, writeCalls, error, stderr, mainPromise,
                 topHandler, exitCode, processExitCode>>
  /\ UNCHANGED <<csvVars, normVars>>

\* one iteration of the for-loop of main() begins: collectDataForCanton is called
ForCanton ==
  /\ pc = "forCanton"
  /\ cantonIdx <= Len(CANTONS_SUISSE_ROMANDE)
  /\ veterinaires' = <<>>
  /\ hasNextPage' = TRUE
  /\ pageNum' = 1
  /\ requests' = <<>>
  /\ served' = <<>>
  /\ pc' = "while"
  /\ UNCHANGED <<browser, closeCalls, cookieLogged, cantonIdx, allVeterinaires, dom,
                 returned, entriesServed, nextServed, csvFile, writeCalls, error, stderr,
                 mainPromise, topHandler, exitCode, processExitCode>>
  /\ UNCHANGED <<csvVars, normVars>>

nextCount(d) == IF d.next THEN 1 ELSE 0

\* while (hasNextPage): page.goto(searchUrl)
CollectGoto ==
  /\ pc = "while"
  /\ hasNextPage
  /\ requests' = Append(requests, [wo |-> canton, page |-> pageNum])
  /\ \/ \E d \in PageDOMs :
          /\ entriesServed + Len(d.entries) <= MaxEntries
          /\ nextServed + nextCount(d) <= MaxNext
          /\ dom' = <<d>>
          /\ served' = Append(served, d)
          /\ entriesServed' = entriesServed + Len(d.entries)
          /\ nextServed' = nextServed + nextCount(d)
          /\ pc' = "extract"
          /\ UNCHANGED error
     \/ /\ Throw("goto")
        /\ UNCHANGED <<dom, served, entriesServed, nextServed>>
  /\ UNCHANGED <<browser, closeCalls, cookieLogged, cantonIdx, allVeterinaires,
                 veterinaires, hasNextPage, pageNum, returned, csvFile, writeCalls, stderr,
                 mainPromise, topHandler, exitCode, processExitCode>>
  /\ UNCHANGED <<csvVars, normVars>>

awaitSelector_nocatch(d) == IF selectorTimesOut(d) THEN "throw" ELSE "continue"

\* await page.waitForSelector(...).catch(() => {}): a timeout is swallowed
awaitSelector(d) == "continue"

CollectExtract_overwrite ==
  /\ pc = "extract"
  /\ IF awaitSelector(dom[1]) = "throw"
     THEN Throw("waitForSelector") /\ UNCHANGED veterinaires
     ELSE \/ /\ veterinaires' = extractDataFromPage(dom[1], canton)
             /\ pc' = "hasNext"
             /\ UNCHANGED error
          \/ /\ Throw("extract")
             /\ UNCHANGED veterinaires
  /\ UNCHANGED <<browser, closeCalls, cookieLogged, cantonIdx, allVeterinaires,
                 hasNextPage, pageNum, dom, requests, served, returned, entriesServed,
                 nextServed, csvFile, writeCalls, stderr, mainPromise, topHandler, exitCode,
                 processExitCode>>
  /\ UNCHANGED <<csvVars, normVars>>

\* extractDataFromPage and veterinaires.push(...pageData)
CollectExtract ==
  /\ pc = "extract"
  /\ IF awaitSelector(dom[1]) = "throw"
     THEN Throw("waitForSelector") /\ UNCHANGED veterinaires
     ELSE \/ /\ veterinaires' = veterinaires \o extractDataFromPage(dom[1], canton)
             /\ pc' = "hasNext"
             /\ UNCHANGED error
          \/ /\ Throw("extract")
             /\ UNCHANGED veterinaires
  /\ UNCHANGED <<browser, closeCalls, cookieLogged, cantonIdx, allVeterinaires,
                 hasNextPage, pageNum, dom, requests, served, returned, entriesServed,
                 nextServed, csvFile, writeCalls, stderr, mainPromise, topHandler, exitCode,
                 processExitCode>>
  /\ UNCHANGED <<csvVars, normVars>>

CollectHasNext_ceiling ==
  /\ pc = "hasNext"
  /\ \/ /\ hasNextPage' = (hasNextPageAvailable(dom[1]) /\ pageNum < 2)
        /\ pageNum' = IF hasNextPage' THEN pageNum + 1 ELSE pageNum
        /\ \/ pc' = "while" /\ UNCHANGED error
           \/ hasNextPage' /\ Throw("pause")
     \/ /\ Throw("hasNext")
        /\ UNCHANGED <<hasNextPage, pageNum>>
  /\ UNCHANGED <<browser, closeCalls, cookieLogged, cantonIdx, allVeterinaires,
                 veterinaires, dom, requests, served, returned, entriesServed, nextServed,
                 csvFile, writeCalls, stderr, mainPromise, topHandler, exitCode,
                 processExitCode>>
  /\ UNCHANGED <<csvVars, normVars>>

\* hasNextPage = await hasNextPageAvailable(page); if (hasNextPage) { pageNum++; pause }
CollectHasNext ==
  /\ pc = "hasNext"
  /\ \/ /\ hasNextPage' = hasNextPageAvailable(dom[1])
        /\ pageNum' = IF hasNextPage' THEN pageNum + 1 ELSE pageNum
        /\ \/ pc' = "while" /\ UNCHANGED error
           \/ hasNextPage' /\ Throw("pause")
     \/ /\ Throw("hasNext")
        /\ UNCHANGED <<hasNextPage, pageNum>>
  /\ UNCHANGED <<browser, closeCalls, cookieLogged, cantonIdx, allVeterinaires,
                 veterinaires, dom, requests, served, returned, entriesServed, nextServed,
                 csvFile, writeCalls, stderr, mainPromise, topHandler, exitCode,
                 processExitCode>>
  /\ UNCHANGED <<csvVars, normVars>>

CollectReturn_flush ==
  /\ pc = "while"
  /\ ~hasNextPage
  /\ allVeterinaires' = allVeterinaires \o veterinaires
  /\ returned' = Append(returned, canton)
  /\ cantonIdx' = cantonIdx + 1
  /\ pc' = "forCanton"
  /\ csvFile' = <<convertToCSV(allVeterinaires')>>
  /\ writeCalls' = writeCalls + 1
  /\ UNCHANGED <<browser, closeCalls, cookieLogged, veterinaires, hasNextPage, pageNum,
                 dom, requests, served, entriesServed, nextServed,
                 error, stderr, mainPromise, topHandler, exitCode, processExitCode>>
  /\ UNCHANGED <<csvVars, normVars>>

\* the loop ends, collectDataForCanton returns and main() appends its result
CollectReturn ==
  /\ pc = "while"
  /\ ~hasNextPage
  /\ allVeterinaires' = allVeterinaires \o veterinaires
  /\ returned' = Append(returned, canton)
  /\ cantonIdx' = cantonIdx + 1
  /\ pc' = "forCanton"
  /\ UNCHANGED <<browser, closeCalls, cookieLogged, veterinaires, hasNextPage, pageNum,
                 dom, requests, served, entriesServed, nextServed, csvFile, writeCalls,
                 error, stderr, mainPromise, topHandler, exitCode, processExitCode>>
  /\ UNCHANGED <<csvVars, normVars>>

\* after the for-loop: convertToCSV and fs.writeFileSync; a failing write
\* leaves the file as it was or truncated, a failing conversion (out of
\* memory) comes before the write
WriteCSV ==
  /\ pc = "forCanton"
  /\ cantonIdx > Len(CANTONS_SUISSE_ROMANDE)
  /\ \/ /\ csvFile' = <<convertToCSV(allVeterinaires)>>
        /\ writeCalls' = writeCalls + 1
        /\ pc' = "finally"
        /\ UNCHANGED error
     \/ /\ csvFile' \in {csvFile, << <<>> >>}
        /\ writeCalls' = writeCalls + 1
        /\ Throw("write")
     \/ /\ Throw("convert")
        /\ UNCHANGED <<csvFile, writeCalls>>
  /\ UNCHANGED <<browser, closeCalls, cookieLogged, cantonIdx, allVeterinaires,
                 veterinaires, hasNextPage, pageNum, dom, requests, served, returned,
                 entriesServed, nextServed, stderr, mainPromise, topHandler, exitCode,
                 processExitCode>>
  /\ UNCHANGED <<csvVars, normVars>>

MainCatch_noclose ==
  /\ pc = "catch"
  /\ stderr' = Append(stderr, "main")
  /\ pc' = "settled"
  /\ mainPromise' = "fulfilled"
  /\ UNCHANGED <<browser, closeCalls, cookieLogged, cantonIdx, allVeterinaires,
                 veterinaires, hasNextPage, pageNum, dom, requests, served, returned,
                 entriesServed, nextServed, csvFile, writeCalls, error,
                 topHandler, exitCode, processExitCode>>
  /\ UNCHANGED <<csvVars, normVars>>

\* catch (error) { console.error(...) }
MainCatch ==
  /\ pc = "catch"
  /\ stderr' = Append(stderr, "main")
  /\ pc' = "finally"
  /\ UNCHANGED <<browser, closeCalls, cookieLogged, cantonIdx, allVeterinaires,
                 veterinaires, hasNextPage, pageNum, dom, requests, served, returned,
                 entriesServed, nextServed, csvFile, writeCalls, error, mainPromise,
                 topHandler, exitCode, processExitCode>>
  /\ UNCHANGED <<csvVars, normVars>>

\* finally { await browser.close() }, after which main() settles
MainFinally ==
  /\ pc = "finally"
  /\ closeCalls' = closeCalls + 1
  /\ \/ /\ browser' = "closed"
        /\ mainPromise' = "fulfilled"
        /\ UNCHANGED error
     \/ /\ error' = Append(error, "close")
        /\ mainPromise' = "rejected"
        /\ UNCHANGED browser
  /\ pc' = "settled"
  /\ UNCHANGED <<cookieLogged, cantonIdx, allVeterinaires, veterinaires, hasNextPage,
                 pageNum, dom, requests, served, returned, entriesServed, nextServed,
                 csvFile, writeCalls, stderr, topHandler, exitCode, processExitCode>>
  /\ UNCHANGED <<csvVars, normVars>>

TopLevelCatch_absent ==
  /\ pc = "settled"
  /\ mainPromise = "rejected"
  /\ topHandler = "waiting"
  /\ topHandler' = "none"
  /\ UNCHANGED <<pc, browser, closeCalls, cookieLogged, cantonIdx, allVeterinaires,
                 veterinaires, hasNextPage, pageNum, dom, requests, served, returned,
                 entriesServed, nextServed, csvFile, writeCalls, error, stderr, mainPromise,
                 exitCode, processExitCode>>
  /\ UNCHANGED <<csvVars, normVars>>

\* main().catch(console.error): the rejection of main() is handled by printing it
TopLevelCatch ==
  /\ pc = "settled"
  /\ mainPromise = "rejected"
  /\ topHandler = "waiting"
  /\ topHandler' = "ran"
  /\ stderr' = Append(stderr, "top")
  /\ UNCHANGED <<pc, browser, closeCalls, cookieLogged, cantonIdx, allVeterinaires,
                 veterinaires, hasNextPage, pageNum, dom, requests, served, returned,
                 entriesServed, nextServed, csvFile, writeCalls, error, mainPromise,
                 exitCode, processExitCode>>
  /\ UNCHANGED <<csvVars, normVars>>

\* the exit status of the Node.js process: 1 for a rejection nobody handled,
\* otherwise process.exitCode, which is 0 when it was never assigned
exitStatus ==
  IF mainPromise = "rejected" /\ topHandler = "none" THEN 1
  ELSE IF processExitCode = <<>> THEN 0 ELSE processExitCode[1]

\* nothing is left to run and the process ends
ProcessExit ==
  /\ pc = "settled"
  /\ mainPromise = "fulfilled" \/ topHandler # "waiting"
  /\ exitCode' = <<exitStatus>>
  /\ pc' = "exited"
  /\ UNCHANGED <<browser, closeCalls, cookieLogged, cantonIdx, allVeterinaires,
                 veterinaires, hasNextPage, pageNum, dom, requests, served, returned,
                 entriesServed, nextServed, csvFile, writeCalls, error, stderr, mainPromise,
                 topHandler, processExitCode>>
  /\ UNCHANGED <<csvVars, normVars>>

Init == RunInit /\ CsvIdle /\ NormIdle

Next ==
  \/ Launch
  \/ NewPage
  \/ GotoLanding
  \/ AcceptCookies
  \/ ForCanton
  \/ CollectGoto
  \/ CollectExtract
  \/ CollectHasNext
  \/ CollectReturn
  \/ WriteCSV
  \/ MainCatch
  \/ MainFinally
  \/ TopLevelCatch
  \/ ProcessExit

Spec == Init /\ [][Next]_vars

(***************************************************************************)
(* A standard CSV reader (RFC 4180): records end at a line break outside   *)
(* quotes, fields at a comma outside quotes, and inside a quoted field two *)
(* double quotes stand for one                                             *)
(***************************************************************************)
\* the positions of the character c in s
positions(s, cs) == {i \in 1..Len(s) : s[i] \in cs}

\* position i of s lies outside quotes: an even number of double quotes precedes it
outsideQuotes(s, i) == Cardinality({j \in positions(s, {Quote}) : j < i}) % 2 = 0

\* s cut at the positions in cuts (the characters at these positions are left out)
splitAt(s, cuts) ==
  LET nth(k) == IF k = 0 THEN 0
                ELSE IF k > Cardinality(cuts) THEN Len(s) + 1
                ELSE CHOOSE p \in cuts : Cardinality({q \in cuts : q < p}) = k - 1
  IN [k \in 1..(Cardinality(cuts) + 1) |-> SubSeq(s, nth(k - 1) + 1, nth(k) - 1)]

\* the value of a field as written: an opening or closing quote is dropped and
\* two double quotes inside quotes stand for one
RECURSIVE unquote(_, _)
unquote(seg, inQuotes) ==
  LET qs == positions(seg, {Quote})
  IN IF qs = {} THEN seg
     ELSE LET p == CHOOSE q \in qs : \A r \in qs : q <= r
              before == SubSeq(seg, 1, p - 1)
          IN IF inQuotes /\ p < Len(seg) /\ seg[p + 1] = Quote
             THEN before \o <<Quote>> \o unquote(SubSeq(seg, p + 2, Len(seg)), TRUE)
             ELSE before \o unquote(SubSeq(seg, p + 1, Len(seg)), ~inQuotes)

parseRecord(line) ==
  LET parts == splitAt(line, {i \in positions(line, {Comma}) : outsideQuotes(line, i)})
  IN [k \in 1..Len(parts) |-> unquote(parts[k], FALSE)]

parseCSV(s) ==
  LET lines == splitAt(s, {i \in positions(s, {Newline}) : outsideQuotes(s, i)})
  IN [k \in 1..Len(lines) |-> parseRecord(lines[k])]

fieldValues(item) ==
  <<item.nom, item.adresse, item.telephone, item.email, item.siteWeb,
    item.specialite, item.canton>>

contains(s, c) == \E i \in 1..Len(s) : s[i] = c

CliniqueSerialized ==
  <<Quote, "C", "l", "i", "n", "i", "q", "u", "e", " ", Quote, Quote, "L", "e", "s", " ",
    "A", "n", "i", "m", "a", "u", "x", Quote, Quote, Quote>>

\* C8: parsing the output of convertToCSV with a standard CSV reader gives the
\* header row and then, for every listing in order, exactly its seven field
\* values, also when they contain double quotes, commas or line breaks; every
\* data row is the comma-joined list of its values, each wrapped in double
\* quotes; and the name Clinique "Les Animaux" is written "Clinique ""Les Animaux""".
C8_CsvRoundTrip ==
  /\ quoted(CliniqueName) = CliniqueSerialized
  /\ csvOut # <<>> =>
       LET rows == parseCSV(csvOut[1])
       IN /\ Len(rows) = 1 + Len(csvData)
          /\ rows[1] = headers
          /\ \A i \in 1..Len(csvData) : rows[i + 1] = fieldValues(csvData[i])

C8_Witness ==
  /\ csvOut # <<>>
  /\ Len(csvData) = 2
  /\ csvData[1].nom = <<Quote, Comma>>

\* C9: the normalization strips the tel: or mailto: prefix of the link
\* attribute ("tel:+41211234567" gives "+41211234567"), and stripping an already
\* stripped value again leaves it unchanged, for every attribute value.
C9_StripIdempotent ==
  /\ (normOnce # <<>> /\ normScheme = "tel" /\ normIn = TelExample)
       => normOnce[1] = <<"+", "4", "1", "2", "1", "1", "2", "3", "4", "5", "6", "7">>
  /\ normTwice # <<>> => normTwice[1] = normOnce[1]

finished == pc \in {"settled", "exited"}

inLoop == pc \in {"while", "extract", "hasNext"}

\* C1: once the browser session has been launched, main() does not finish
\* without having called browser.close(), whichever step failed; and close is
\* never called more than once.
C1_BrowserClosed ==
  /\ closeCalls <= 1
  /\ (finished /\ browser # "none") => closeCalls = 1

C1_Witness ==
  /\ finished
  /\ error = <<"extract">>
  /\ cantonIdx = 2
  /\ closeCalls = 1
  /\ browser = "closed"

\* the handler that prints the error thrown at a step: main()'s own catch
\* block for a step inside its try block, the one attached by main().catch for
\* puppeteer.launch and browser.close
printedBy(step) == IF step \in {"launch", "close"} THEN "top" ELSE "main"

\* C2 (as claimed): after a failure the error is printed by a handler and the
\* process ends with a non-zero exit status, no exit code having been set by
\* the program.
C2_ExitNonZero ==
  (pc = "exited" /\ error # <<>>) =>
     /\ stderr # <<>>
     /\ processExitCode = <<>>
     /\ exitCode[1] # 0

\* C2 (amended): after a failure every error has been printed by a handler
\* (main()'s catch block, or the handler attached by main().catch for a failure
\* of launch or close) and the process ends with exit status 0, no exit code
\* having been set by the program.
C2_ExitZero ==
  (pc = "exited" /\ error # <<>>) =>
     /\ stderr = [i \in 1..Len(error) |-> printedBy(error[i])]
     /\ processExitCode = <<>>
     /\ exitCode = <<0>>

C2_Witness ==
  /\ pc = "exited"
  /\ error = <<"goto", "close">>
  /\ stderr = <<"main", "top">>
  /\ exitCode = <<0>>

isPrefix(p, q) == Len(p) <= Len(q) /\ p = SubSeq(q, 1, Len(p))

\* C3: fs.writeFileSync is called at most once, and only after
\* collectDataForCanton has returned for all six cantons in their configured
\* order; without that call there is no file, so a failure before the write
\* leaves no file even when listings were already collected.
C3_SingleFinalWrite ==
  /\ writeCalls <= 1
  /\ isPrefix(returned, CANTONS_SUISSE_ROMANDE)
  /\ writeCalls = 1 => returned = CANTONS_SUISSE_ROMANDE
  /\ writeCalls = 0 => csvFile = <<>>
  /\ (error # <<>> /\ error[1] \notin {"write", "close"}) => (writeCalls = 0 /\ csvFile = <<>>)

C3_Witness ==
  /\ pc = "exited"
  /\ error = <<"goto">>
  /\ Len(returned) = 2
  /\ Len(allVeterinaires) = 2
  /\ csvFile = <<>>

\* the canton of the collectDataForCanton call that the histories describe
callCanton == IF inLoop THEN canton ELSE returned[Len(returned)]

\* C4: when collectDataForCanton returns after n pages were served, pages
\* 1..n-1 carried the next-page control and page n did not, the pages requested
\* were 1, 2, ..., n of that canton, once each and in this order, and the result
\* is the listings of page 1, then those of page 2, ..., then those of page n.
C4_PagesInOrder ==
  ((pc = "while" /\ ~hasNextPage) \/ (pc = "forCanton" /\ returned # <<>>)) =>
     LET n == Len(served)
     IN /\ n >= 1
        /\ \A i \in 1..(n - 1) : served[i].next
        /\ ~served[n].next
        /\ requests = [i \in 1..n |-> [wo |-> callCanton, page |-> i]]
        /\ veterinaires = flatten([i \in 1..n |-> extractDataFromPage(served[i], callCanton)])
        /\ pc = "forCanton" =>
             /\ Len(allVeterinaires) >= Len(veterinaires)
             /\ veterinaires = SubSeq(allVeterinaires,
                                      Len(allVeterinaires) - Len(veterinaires) + 1,
                                      Len(allVeterinaires))

C4_Witness ==
  /\ pc = "forCanton"
  /\ Len(served) = 2
  /\ Len(served[1].entries) = 1
  /\ Len(veterinaires) = 2
  /\ veterinaires[1] # veterinaires[2]

\* C5: every listing in allVeterinaires and in the list collectDataForCanton
\* is building has a non-empty name, and so has every data row of the file.
C5_NamesNonEmpty ==
  /\ \A i \in 1..Len(allVeterinaires) : allVeterinaires[i].nom # <<>>
  /\ \A i \in 1..Len(veterinaires) : veterinaires[i].nom # <<>>
  /\ csvFile # <<>> =>
       LET rows == parseCSV(csvFile[1])
       IN \A k \in 2..Len(rows) : rows[k][1] # <<>>

C5_Witness ==
  /\ pc = "hasNext"
  /\ dom[1].entries = <<EntryBlankName, EntryClinique>>
  /\ Len(veterinaires) = 1
  /\ veterinaires[1].nom = CliniqueName

\* C6: when the page has no listing node, so that the wait for one times out,
\* the step of extractDataFromPage either goes on to the pagination check with
\* the list of listings unchanged and no error, or fails in page.evaluate; the
\* timeout itself is never an error of the run.
C6_TimeoutSwallowed ==
  [][ (pc = "extract" /\ selectorTimesOut(dom[1])) =>
        \/ /\ pc' = "hasNext"
           /\ veterinaires' = veterinaires
           /\ error' = error
        \/ error' = Append(error, "extract") ]_vars

C6_Witness ==
  /\ pc = "hasNext"
  /\ selectorTimesOut(dom[1])
  /\ Len(served) = 2
  /\ Len(veterinaires) = 1
  /\ error = <<>>

\* C7: whatever happens inside acceptCookies, it returns normally: the step
\* changes nothing but the log line, raises no error, and main() goes on to
\* the loop over the cantons with the first canton and an empty collection.
C7_CookiesNonFatal ==
  [][ pc = "acceptCookies" =>
        /\ pc' = "forCanton"
        /\ cantonIdx' = 1
        /\ allVeterinaires' = <<>>
        /\ error' = <<>>
        /\ UNCHANGED <<browser, closeCalls, cantonIdx, allVeterinaires, veterinaires,
                       hasNextPage, pageNum, dom, requests, served, returned, csvFile,
                       writeCalls, error, stderr, mainPromise, topHandler, exitCode,
                       processExitCode>> ]_vars

C7_Witness ==
  /\ cookieLogged
  /\ pc = "hasNext"
  /\ cantonIdx = 1
  /\ veterinaires # <<>>
  /\ error = <<>>

allNext == served # <<>> /\ \A i \in 1..Len(served) : served[i].next

\* C10: the loop of collectDataForCanton goes on exactly when the page just
\* fetched carries the next-page control, whatever the page number: it is left
\* right after the first page without the control, also when that page has no
\* listing, and as long as every page fetched carried the control and nothing
\* threw, the call has not returned, no file is written and the browser is not
\* closed.
C10_NextControlOnlyExit ==
  /\ (pc = "while" /\ served # <<>>) =>
        /\ hasNextPage = served[Len(served)].next
        /\ \A i \in 1..(Len(served) - 1) : served[i].next
        /\ pageNum = Len(served) + (IF hasNextPage THEN 1 ELSE 0)
  /\ (allNext /\ error = <<>>) =>
        /\ inLoop
        /\ Len(returned) = cantonIdx - 1
        /\ writeCalls = 0
        /\ closeCalls = 0

C10_Witness ==
  /\ pc = "while"
  /\ allNext
  /\ Len(served) = 2
  /\ hasNextPage
  /\ pageNum = 3
  /\ served[2].entries = <<>>

====
